---- MODULE Spec2Model ----
(***************************************************************************)
(* Model of the two DWD warning scripts of themuck/DWD_Warnungen:          *)
(*   DWDWarnAPP.py        ("CAP"  script: CAP-XML warnings, prefix match)  *)
(*   DWDWarnApp_noCAP.py  ("JSON" script: JSON warnings, county equality)  *)
(* A run is: (CAP only: download + parse the warnings) -> read the place   *)
(* -> get_coordinates -> get_ags_from_coordinates -> warning match.        *)
(*                                                                         *)
(* Text values (codes, cell ids, names) are sequences of one-character     *)
(* strings, so that slicing and prefix tests are computed as Python        *)
(* computes them.  Python's None is the one-element sequence None, which   *)
(* is no text over the digits.                                             *)
(***************************************************************************)
EXTENDS Integers, Sequences, FiniteSets

VARIABLES
    script,             \* which script runs: "CAP" or "JSON"
    pc,                 \* position of the main flow
    all_warnings_data,  \* CAP: the global list built while parsing the XML
    coords,             \* result of get_coordinates: <<lat, lon>> or NoCoords
    features,           \* data["features"] as seen by get_ags_from_coordinates
    location_ags,       \* resolved region code (CAP location_ags, JSON ags)
    location_name,      \* resolved region name (CAP location_name, JSON gemeindename)
    error_ags,          \* error of get_ags_from_coordinates (JSON: returned, CAP: printed)
    all_warnings_raw,   \* JSON: data["warnings"] as seen by get_warnings_by_ags
    warnungen,          \* JSON: list returned by get_warnings_by_ags
    error_warn,         \* JSON: error returned by get_warnings_by_ags
    reported,           \* the warning records printed, in print order
    out                 \* the kinds of the messages printed, in print order

vars == <<script, pc, all_warnings_data, coords, features, location_ags,
          location_name, error_ags, all_warnings_raw, warnungen, error_warn,
          reported, out>>

(***************************************************************************)
(* Bounds of the model.                                                    *)
(***************************************************************************)
MaxWarnings == 2    \* WARNCELLID geocodes in the CAP file
MaxIdLen    == 2    \* length of a CAP cell id over CapDigits
MaxCells    == 2    \* entries of the JSON "warnings" mapping
MaxPerCell  == 1    \* warnings listed under one JSON cell
MaxFeatures == 2    \* features of the GeoJSON catalog

(***************************************************************************)
(* Python values and string operations.                                    *)
(***************************************************************************)
None == <<"None">>

NoMsg == "None"

\* bool(x) of an Optional[str]
Truthy(x) == x # None /\ x # <<>>

Min(a, b) == IF a < b THEN a ELSE b

\* s[a:b] for 0 <= a, 0 <= b
Slice(s, a, b) == SubSeq(s, a + 1, Min(b, Len(s)))

\* s.startswith(p)
StartsWith(s, p) == Len(p) <= Len(s) /\ SubSeq(s, 1, Len(p)) = p

\* all texts over the alphabet of length lo..hi
Texts(alphabet, lo, hi) == UNION {[1..k -> alphabet] : k \in lo..hi}

(***************************************************************************)
(* Catalog features.  A feature is a JSON object; "geometry" and           *)
(* "properties" may be absent keys.  A geometry is null, unparseable, or   *)
(* a rectangular polygon with corners (x1,y1) and (x2,y2) in (lon, lat).   *)
(***************************************************************************)
Box(x1, x2, y1, y2) == [kind |-> "Polygon", x1 |-> x1, x2 |-> x2, y1 |-> y1, y2 |-> y2]

NullGeom == [kind |-> "null", x1 |-> 0, x2 |-> 0, y1 |-> 0, y2 |-> 0]

InvalidGeom == [kind |-> "invalid", x1 |-> 0, x2 |-> 0, y1 |-> 0, y2 |-> 0]

\* properties object: AGS / NAME are None when the key is absent (dict.get)
Props(agsv, namev) == [AGS |-> agsv, NAME |-> namev]

Feature(hasG, g, hasP, p) ==
    [hasGeometry |-> hasG, geometry |-> g, hasProperties |-> hasP, properties |-> p]

\* Point(lon, lat)
Point(lon, lat) == [x |-> lon, y |-> lat]

\* shape(g) raises for anything that is not a geometry mapping
ShapeRaises(g) == g.kind # "Polygon"

\* shapely's geometry.contains(point): the point lies in the interior;
\* a point on the boundary is not contained
StrictlyInside(g, p) == g.x1 < p.x /\ p.x < g.x2 /\ g.y1 < p.y /\ p.y < g.y2

OnBoundary(g, p) ==
    /\ g.x1 <= p.x /\ p.x <= g.x2 /\ g.y1 <= p.y /\ p.y <= g.y2
    /\ ~StrictlyInside(g, p)

geometry_contains(g, p) == StrictlyInside(g, p)

Unbekannt == <<"Unbekannt">>

\* properties.get("NAME", "Unbekannt")
NameOf(p) == IF p.NAME = None THEN Unbekannt ELSE p.NAME

(***************************************************************************)
(* get_ags_from_coordinates, CAP script: the scan from feature i on.       *)
(* The result is [ags, name, err]; err is the message the function prints  *)
(* (CAP) or returns (JSON).                                                *)
(***************************************************************************)
Resolved(a, n, e) == [ags |-> a, name |-> n, err |-> e]

RECURSIVE cap_scan(_, _, _)
cap_scan(fs, i, point) ==
    IF i > Len(fs) THEN Resolved(None, None, NoMsg)
    ELSE LET f == fs[i] IN
         IF ~f.hasGeometry
         THEN \* feature["geometry"] raises KeyError outside the inner try
              Resolved(None, None, "parse_error")
         ELSE IF f.geometry.kind = "null" THEN cap_scan(fs, i + 1, point)
         ELSE IF ShapeRaises(f.geometry) THEN cap_scan(fs, i + 1, point)
         ELSE IF geometry_contains(f.geometry, point)
              THEN IF ~f.hasProperties
                   THEN \* KeyError inside the inner try: pass
                        cap_scan(fs, i + 1, point)
                   ELSE Resolved(f.properties.AGS, NameOf(f.properties), NoMsg)
              ELSE cap_scan(fs, i + 1, point)

cap_get_ags_from_coordinates(fs, lat, lon) == cap_scan(fs, 1, Point(lon, lat))

(***************************************************************************)
(* get_ags_from_coordinates, JSON script.                                  *)
(***************************************************************************)
RECURSIVE json_scan(_, _, _)
json_scan(fs, i, point) ==
    IF i > Len(fs) THEN Resolved(None, None, "no_region")
    ELSE LET f == fs[i] IN
         IF ~f.hasGeometry \/ ~f.hasProperties THEN json_scan(fs, i + 1, point)
         ELSE IF ShapeRaises(f.geometry) THEN json_scan(fs, i + 1, point)
         ELSE IF geometry_contains(f.geometry, point) /\ Truthy(f.properties.AGS)
              THEN Resolved(f.properties.AGS, NameOf(f.properties), NoMsg)
              ELSE json_scan(fs, i + 1, point)

json_get_ags_from_coordinates(fs, lat, lon) == json_scan(fs, 1, Point(lon, lat))

(***************************************************************************)
(* CodeNormalizer and MatchEngine as the scripts compute them.             *)
(***************************************************************************)
\* mutant: the leading character is dropped whatever it is
ags_code_strip_any(warncell_id) ==
    IF Len(warncell_id) > 1 THEN Slice(warncell_id, 1, Len(warncell_id)) ELSE warncell_id

\* mutant: the leading '1' is dropped without the length test
ags_code_strip_unguarded(warncell_id) ==
    IF StartsWith(warncell_id, <<"1">>)
    THEN Slice(warncell_id, 1, Len(warncell_id))
    ELSE warncell_id

\* CAP: warncell_id[1:] if warncell_id.startswith('1') and len(warncell_id) > 1
ags_code_from_warncell(warncell_id) ==
    IF StartsWith(warncell_id, <<"1">>) /\ Len(warncell_id) > 1
    THEN Slice(warncell_id, 1, Len(warncell_id))
    ELSE warncell_id

\* mutant: the codes are compared for equality
cap_matches_exact(q, w) == q = w

\* CAP: location_ags.startswith(details['ags_code'])
cap_matches(q, w) == StartsWith(q, w)

MinAgsLen == 5      \* len(ags_code) < 5

CountyWidth == 5    \* ags_code[:5]

MinCellIdLen == 6   \* len(warncell_id_str) < 6

CountyStart == 1    \* warncell_id_str[1:6]

CountyEnd == 6      \* warncell_id_str[1:6]

\* mutant: the queried code is not truncated
ags_kreis_whole(ags_code) == ags_code

\* JSON: ags_kreis = ags_code[:5]
ags_kreis(ags_code) == Slice(ags_code, 0, CountyWidth)

\* JSON: the cell id is skipped when shorter than 6 characters (a key of a
\* parsed JSON object is always a str, so the isinstance test never fires)
cell_skipped(warncell_id_str) == Len(warncell_id_str) < MinCellIdLen

\* mutant: the county is taken from index 0
cell_county_from0(warncell_id_str) == Slice(warncell_id_str, 0, CountyWidth)

\* JSON: warncell_id_str[1:6]
cell_county(warncell_id_str) == Slice(warncell_id_str, CountyStart, CountyEnd)

\* mutant: the county is compared with the whole queried code
json_matches_untruncated(q, warncell_id_str) == cell_county(warncell_id_str) = q

\* JSON: warncell_id_str[1:6] == ags_kreis
json_matches(q, warncell_id_str) == cell_county(warncell_id_str) = ags_kreis(q)

(***************************************************************************)
(* The warning match of each script.                                       *)
(***************************************************************************)
\* CAP: one entry of all_warnings_data per WARNCELLID geocode
WarningEntry(warncell_id) ==
    [warncell_id |-> warncell_id, ags_code |-> ags_code_from_warncell(warncell_id)]

\* mutant: the loop yields the matching entries last to first
RECURSIVE cap_print_loop_reversed(_, _, _)
cap_print_loop_reversed(data, i, q) ==
    IF i > Len(data) THEN <<>>
    ELSE cap_print_loop_reversed(data, i + 1, q)
         \o (IF cap_matches(q, data[i].ags_code) THEN <<data[i]>> ELSE <<>>)

\* CAP: the entries the loop over all_warnings_data prints, from entry i on
RECURSIVE cap_print_loop(_, _, _)
cap_print_loop(data, i, q) ==
    IF i > Len(data) THEN <<>>
    ELSE (IF cap_matches(q, data[i].ags_code) THEN <<data[i]>> ELSE <<>>)
         \o cap_print_loop(data, i + 1, q)

\* JSON: one item of data["warnings"]: the key and its value, which is a list
\* of warning objects or something else
Warning(cell, n) == [cell |-> cell, n |-> n]

WarningList(cell, n) == [k \in 1..n |-> Warning(cell, k)]

Cell(id, isList, n) == [id |-> id, isList |-> isList, warnings |-> WarningList(id, n)]

\* JSON: matched_warnings after the loop over all_warnings_raw.items(), from item i on
RECURSIVE json_collect(_, _, _)
json_collect(raw, i, q) ==
    IF i > Len(raw) THEN <<>>
    ELSE (IF ~cell_skipped(raw[i].id) /\ json_matches(q, raw[i].id) /\ raw[i].isList
          THEN raw[i].warnings ELSE <<>>)
         \o json_collect(raw, i + 1, q)

Looked(ws, e) == [warnings |-> ws, err |-> e]

\* mutant: an empty result is returned as an error
get_warnings_by_ags_empty_is_error(ags_code, fetched, raw) ==
    IF ~Truthy(ags_code) \/ Len(ags_code) < MinAgsLen THEN Looked(<<>>, "invalid_code")
    ELSE IF ~fetched THEN Looked(<<>>, "fetch_error")
    ELSE IF json_collect(raw, 1, ags_code) = <<>> THEN Looked(<<>>, "invalid_code")
    ELSE Looked(json_collect(raw, 1, ags_code), NoMsg)

\* JSON: get_warnings_by_ags; fetched says whether the download and the
\* unwrapping of the JSONP text succeeded
get_warnings_by_ags(ags_code, fetched, raw) ==
    IF ~Truthy(ags_code) \/ Len(ags_code) < MinAgsLen THEN Looked(<<>>, "invalid_code")
    ELSE IF ~fetched THEN Looked(<<>>, "fetch_error")
    ELSE Looked(json_collect(raw, 1, ags_code), NoMsg)

(***************************************************************************)
(* Input domains.                                                          *)
(***************************************************************************)
CapDigits == {"0", "1"}

\* the text of a <value> element: ElementTree gives None for an empty
\* element, so a text is never the empty string
CapCellIds == Texts(CapDigits, 1, MaxIdLen)

\* the same, had the parser delivered the empty string for an empty element
CapCellIdsOrEmpty == Texts(CapDigits, 0, MaxIdLen)

K1 == <<"0", "3", "2", "5", "7">>

K2 == <<"0", "6", "4", "1", "2">>

Zeros == <<"0", "0", "0">>

\* keys of the JSON "warnings" mapping
JsonCellIds ==
    { <<"8">> \o K1 \o Zeros,          \* 803257000, the id of the source comment
      <<"1">> \o K1 \o Zeros,          \* same county, other type digit
      <<"8">> \o K2 \o Zeros,          \* other county
      <<"8">> \o K1,                   \* exactly 6 characters
      K1 \o <<"0">>,                   \* county at index 0 instead of 1
      <<"8">> \o SubSeq(K1, 1, 4),     \* 5 characters: too short
      K1,                              \* 5 characters: too short
      <<>> }

\* AGS codes of catalog features
CapCodes == Texts(CapDigits, 1, 2) \cup {<<"0", "1", "1">>}

JsonCodes ==
    { K1 \o Zeros,                     \* 03257000
      K1,                              \* exactly 5 characters
      SubSeq(K1, 1, 4),                \* 4 characters: too short for the lookup
      K2 \o Zeros,
      Tail(K1) \o <<"0">> \o Zeros }   \* 32570000

CodesOf(s) == IF s = "CAP" THEN CapCodes ELSE JsonCodes

NameA == <<"Alsfeld">>

R1 == Box(0, 4, 0, 2)

R2 == Box(1, 3, 0, 2)

\* points <<lat, lon>>
AllPoints ==
    { <<1, 2>>,     \* inside R1 and R2
      <<1, 1>>,     \* inside R1, on an edge of R2
      <<1, 0>>,     \* on an edge of R1, outside R2
      <<0, 0>>,     \* on a vertex of R1
      <<1, 5>> }    \* outside both

InnerPoint == { <<1, 2>> }

\* the two codes the catalogs of the resolution profile use
Code1(s) == IF s = "CAP" THEN <<"0", "1">> ELSE K1 \o Zeros

Code2(s) == IF s = "CAP" THEN <<"1">> ELSE K2 \o Zeros

\* features of the resolution profile: malformed ones, and each region with
\* and without a code, a name, a properties object
ResolveFeatures(s) ==
    { Feature(FALSE, NullGeom, TRUE, Props(Code1(s), NameA)),
      Feature(TRUE, NullGeom, TRUE, Props(Code1(s), NameA)),
      Feature(TRUE, InvalidGeom, TRUE, Props(Code1(s), NameA)) }
    \cup { Feature(TRUE, g, TRUE, p) :
             g \in {R1, R2},
             p \in { Props(None, NameA), Props(Code1(s), NameA), Props(Code2(s), None) } }
    \cup { Feature(TRUE, g, FALSE, Props(None, None)) : g \in {R1, R2} }

SeqsUpTo(S, n) == UNION {[1..k -> S] : k \in 0..n}

ResolveCatalogs(s) == SeqsUpTo(ResolveFeatures(s), MaxFeatures)

\* catalogs of the match profile: one region around the inner point per code
MatchCatalogs(s) == { << Feature(TRUE, R1, TRUE, Props(c, NameA)) >> : c \in CodesOf(s) }

\* the JSON "warnings" mapping as its items in order; the keys are distinct
JsonCells(ids) ==
    { Cell(id, l, n) : id \in ids, l \in {TRUE}, n \in 0..MaxPerCell }
    \cup { Cell(id, FALSE, 0) : id \in ids }

DistinctIds(raw) == \A i, j \in 1..Len(raw) : i # j => raw[i].id # raw[j].id

JsonData(ids) == { raw \in SeqsUpTo(JsonCells(ids), MaxCells) : DistinctIds(raw) }

(***************************************************************************)
(* The run.  Each action is one stage of the main flow: the call it makes  *)
(* and the branch the main flow takes on the result.                       *)
(***************************************************************************)
Init ==
    /\ script \in {"CAP", "JSON"}
    /\ pc = IF script = "CAP" THEN "download" ELSE "input"
    /\ all_warnings_data = <<>>
    /\ coords = <<>>
    /\ features = <<>>
    /\ location_ags = None
    /\ location_name = None
    /\ error_ags = NoMsg
    /\ all_warnings_raw = <<>>
    /\ warnungen = <<>>
    /\ error_warn = NoMsg
    /\ reported = <<>>
    /\ out = <<>>

NoCoords == <<>>

\* CAP: requests.get(ZIP_URL); a failure prints and exits
DownloadZip ==
    /\ pc = "download"
    /\ \E ok \in BOOLEAN :
         IF ok THEN pc' = "parse" /\ out' = out
         ELSE pc' = "done" /\ out' = Append(out, "download_failed")
    /\ UNCHANGED <<script, all_warnings_data, coords, features, location_ags,
                   location_name, error_ags, all_warnings_raw, warnungen,
                   error_warn, reported>>

\* CAP: one WARNCELLID geocode of the XML file is appended to all_warnings_data
IngestGeocode(ids) ==
    /\ pc = "parse"
    /\ Len(all_warnings_data) < MaxWarnings
    /\ \E warncell_id \in ids :
         all_warnings_data' = Append(all_warnings_data, WarningEntry(warncell_id))
    /\ UNCHANGED <<script, pc, coords, features, location_ags, location_name,
                   error_ags, all_warnings_raw, warnungen, error_warn, reported, out>>

\* CAP: the archive or the XML cannot be read, or a <value> element has no
\* text (None.startswith raises): the except clauses print and exit
IngestFail ==
    /\ pc = "parse"
    /\ pc' = "done"
    /\ out' = Append(out, "parse_failed")
    /\ UNCHANGED <<script, all_warnings_data, coords, features, location_ags,
                   location_name, error_ags, all_warnings_raw, warnungen,
                   error_warn, reported>>

\* CAP: the XML file is exhausted
IngestDone ==
    /\ pc = "parse"
    /\ pc' = "input"
    /\ UNCHANGED <<script, all_warnings_data, coords, features, location_ags,
                   location_name, error_ags, all_warnings_raw, warnungen,
                   error_warn, reported, out>>

\* input(...): an empty place ends the run
ReadPlace ==
    /\ pc = "input"
    /\ \E empty \in BOOLEAN :
         IF empty THEN pc' = "done" /\ out' = Append(out, "no_place")
         ELSE pc' = "geocode" /\ out' = out
    /\ UNCHANGED <<script, all_warnings_data, coords, features, location_ags,
                   location_name, error_ags, all_warnings_raw, warnungen,
                   error_warn, reported>>

\* get_coordinates and the branch on its result
GetCoordinates(points) ==
    /\ pc = "geocode"
    /\ \E c \in points \cup {NoCoords} :
         /\ coords' = c
         /\ IF c = NoCoords
            THEN pc' = "done" /\ out' = Append(out, "place_not_found")
            ELSE pc' = "resolve" /\ out' = Append(out, "coords_found")
    /\ UNCHANGED <<script, all_warnings_data, features, location_ags,
                   location_name, error_ags, all_warnings_raw, warnungen,
                   error_warn, reported>>

get_ags_from_coordinates(s, fetched, fs, lat, lon) ==
    IF ~fetched THEN Resolved(None, None, "fetch_error")
    ELSE IF s = "CAP" THEN cap_get_ags_from_coordinates(fs, lat, lon)
    ELSE json_get_ags_from_coordinates(fs, lat, lon)

\* what the main flow prints after get_ags_from_coordinates returned r
ResolveMessages(s, r) ==
    IF s = "CAP"
    THEN (IF r.err # NoMsg THEN <<r.err>> ELSE <<>>)
         \o (IF Truthy(r.ags) /\ Truthy(r.name) THEN <<"region_found">>
             ELSE <<"not_assigned">>)
    ELSE IF r.err # NoMsg THEN <<r.err>>
    ELSE IF Truthy(r.ags) /\ Truthy(r.name) THEN <<"region_found">>
    ELSE <<"not_assigned">>

\* mutant: the main flow goes on without testing the resolved code and name
ResolveProceedsUnchecked(s, r) == s = "JSON" => r.err = NoMsg

\* whether the main flow goes on to the warning match
ResolveProceeds(s, r) ==
    /\ s = "JSON" => r.err = NoMsg
    /\ Truthy(r.ags) /\ Truthy(r.name)

\* get_ags_from_coordinates and the branch on its result
ResolvePlace(catalogs) ==
    /\ pc = "resolve"
    /\ \E fetched \in BOOLEAN, fs \in catalogs \cup {<<>>} :
         /\ ~fetched => fs = <<>>
         /\ LET r == get_ags_from_coordinates(script, fetched, fs, coords[1], coords[2])
            IN  /\ features' = fs
                /\ location_ags' = r.ags
                /\ location_name' = r.name
                /\ error_ags' = r.err
                /\ out' = out \o ResolveMessages(script, r)
                /\ pc' = IF ResolveProceeds(script, r) THEN "match" ELSE "done"
    /\ UNCHANGED <<script, all_warnings_data, coords, all_warnings_raw, warnungen,
                   error_warn, reported>>

\* what the CAP loop prints besides the entries themselves
CapMatchMessages(data, printed) ==
    IF data = <<>> THEN <<"no_data">>
    ELSE IF printed = <<>> THEN <<"no_warnings">>
    ELSE <<"warnings">>

\* CAP: the loop over all_warnings_data
PrintWarnings ==
    /\ pc = "match"
    /\ script = "CAP"
    /\ LET printed == cap_print_loop(all_warnings_data, 1, location_ags)
       IN  /\ reported' = printed
           /\ out' = out \o CapMatchMessages(all_warnings_data, printed)
    /\ pc' = "done"
    /\ UNCHANGED <<script, all_warnings_data, coords, features, location_ags,
                   location_name, error_ags, all_warnings_raw, warnungen, error_warn>>

\* mutant: the branch looks at the list only
JsonMatchMessagesListOnly(r) ==
    IF r.warnings # <<>> THEN <<"warnings">> ELSE <<"no_warnings">>

\* what the JSON main flow prints after get_warnings_by_ags returned r
JsonMatchMessages(r) ==
    IF r.err # NoMsg THEN <<r.err>>
    ELSE IF r.warnings # <<>> THEN <<"warnings">>
    ELSE <<"no_warnings">>

\* JSON: get_warnings_by_ags and the branch on its result
LookupWarnings(data) ==
    /\ pc = "match"
    /\ script = "JSON"
    /\ \E fetched \in BOOLEAN, raw \in data :
         /\ (~fetched \/ Len(location_ags) < MinAgsLen) => raw = <<>>
         /\ Len(location_ags) < MinAgsLen => fetched
         /\ LET r == get_warnings_by_ags(location_ags, fetched, raw)
            IN  /\ all_warnings_raw' = raw
                /\ warnungen' = r.warnings
                /\ error_warn' = r.err
                /\ reported' = IF r.err = NoMsg THEN r.warnings ELSE <<>>
                /\ out' = out \o JsonMatchMessages(r)
    /\ pc' = "done"
    /\ UNCHANGED <<script, all_warnings_data, coords, features, location_ags,
                   location_name, error_ags>>

(***************************************************************************)
(* Specifications.  All run both scripts from the start; they differ in    *)
(* the inputs they draw.                                                   *)
(*   Spec       every catalog over ResolveFeatures, few warnings           *)
(*   SpecMatch  one region per code, every warning list over the ids       *)
(*   SpecEmpty  as SpecMatch, with a parser that may deliver an empty id   *)
(***************************************************************************)
FewCapIds == { <<"1", "0">> }

FewJsonIds == { <<"8">> \o K1 \o Zeros }

Next ==
    \/ DownloadZip
    \/ IngestGeocode(FewCapIds)
    \/ IngestFail
    \/ IngestDone
    \/ ReadPlace
    \/ GetCoordinates(AllPoints)
    \/ ResolvePlace(ResolveCatalogs(script))
    \/ PrintWarnings
    \/ LookupWarnings(JsonData(FewJsonIds))

Spec == Init /\ [][Next]_vars

NextMatch ==
    \/ DownloadZip
    \/ IngestGeocode(CapCellIds)
    \/ IngestFail
    \/ IngestDone
    \/ ReadPlace
    \/ GetCoordinates(InnerPoint)
    \/ ResolvePlace(MatchCatalogs(script))
    \/ PrintWarnings
    \/ LookupWarnings(JsonData(JsonCellIds))

SpecMatch == Init /\ [][NextMatch]_vars

NextEmpty ==
    \/ DownloadZip
    \/ IngestGeocode(CapCellIdsOrEmpty)
    \/ IngestFail
    \/ IngestDone
    \/ ReadPlace
    \/ GetCoordinates(InnerPoint)
    \/ ResolvePlace(MatchCatalogs(script))
    \/ PrintWarnings
    \/ LookupWarnings(JsonData(FewJsonIds))

SpecEmpty == Init /\ [][NextEmpty]_vars

(***************************************************************************)
(* Properties.  The predicates below are stated from the specification's   *)
(* words, independently of the operators that model the code.              *)
(***************************************************************************)
Last(s) == s[Len(s)]

Range(s) == {s[i] : i \in 1..Len(s)}

\* the CAP loop over all_warnings_data has run
CapMatchRan ==
    /\ script = "CAP" /\ pc = "done" /\ out # <<>>
    /\ Last(out) \in {"no_data", "no_warnings", "warnings"}

\* get_warnings_by_ags has been called
JsonLookupRan ==
    /\ script = "JSON" /\ pc = "done" /\ out # <<>>
    /\ Last(out) \in {"invalid_code", "fetch_error", "no_warnings", "warnings"}
    /\ Truthy(location_ags)

\* w is a literal prefix of q
IsPrefix(w, q) == \E k \in 0..Len(q) : Len(w) = k /\ \A i \in 1..k : w[i] = q[i]

\* the first 5 characters of q are exactly the 5 characters of w
First5Equal(q, w) == Len(w) = 5 /\ Len(q) >= 5 /\ \A i \in 1..5 : q[i] = w[i]

\* the characters of id at the 0-based indices 1..5
Chars1To5(id) == [i \in 1..5 |-> id[i + 1]]

\* C1: under the prefix policy a warning record with normalized code w is
\* reported for the queried code q if and only if q starts with w.
C1_PrefixPolicy ==
    CapMatchRan =>
        \A i \in 1..Len(all_warnings_data) :
            (all_warnings_data[i] \in Range(reported))
                <=> IsPrefix(all_warnings_data[i].ags_code, location_ags)

\* C1 witness: a record whose code is a proper prefix of the queried code is
\* reported and another record is not.
C1_Witness ==
    /\ CapMatchRan
    /\ \E i, j \in 1..Len(all_warnings_data) :
         /\ all_warnings_data[i] \in Range(reported)
         /\ Len(all_warnings_data[i].ags_code) < Len(location_ags)
         /\ all_warnings_data[j] \notin Range(reported)

C3_TruncatedEquality ==
    JsonLookupRan =>
        \A i \in 1..Len(all_warnings_raw) :
            LET c == all_warnings_raw[i] IN
            Len(c.id) >= 6 =>
                IF First5Equal(location_ags, Chars1To5(c.id))
                THEN \A k \in 1..Len(c.warnings) : c.warnings[k] \in Range(warnungen)
                ELSE \A j \in 1..Len(warnungen) : warnungen[j].cell # c.id

\* C3 witness: a queried code longer than 5 characters gets the warnings of a
\* cell of its county and not those of a cell of another county.
C3_Witness ==
    /\ JsonLookupRan
    /\ Len(location_ags) > 5
    /\ \E i, j \in 1..Len(all_warnings_raw) :
         /\ all_warnings_raw[i].warnings # <<>>
         /\ all_warnings_raw[i].warnings[1] \in Range(warnungen)
         /\ Len(all_warnings_raw[j].id) >= 6
         /\ all_warnings_raw[j].warnings # <<>>
         /\ all_warnings_raw[j].warnings[1] \notin Range(warnungen)

\* C4: LeadingDigitStrip: the normalized code is the raw cell id without its
\* first character when the id starts with '1' and is longer than one
\* character, and the raw cell id unchanged otherwise.
C4_LeadingDigitStrip ==
    script = "CAP" =>
        \A i \in 1..Len(all_warnings_data) :
            LET r == all_warnings_data[i].warncell_id
                c == all_warnings_data[i].ags_code
            IN  IF Len(r) > 1 /\ r[1] = "1"
                THEN Len(c) = Len(r) - 1 /\ \A k \in 1..Len(c) : c[k] = r[k + 1]
                ELSE c = r

\* C4 witness: one ingested id lost its leading '1', the id "1" was kept.
C4_Witness ==
    /\ script = "CAP"
    /\ \E i, j \in 1..Len(all_warnings_data) :
         /\ Len(all_warnings_data[i].warncell_id) > 1
         /\ all_warnings_data[i].warncell_id[1] = "1"
         /\ all_warnings_data[j].warncell_id = <<"1">>
         /\ all_warnings_data[j].ags_code = <<"1">>

\* C5: CountySubstring: an id of at least 6 characters is normalized to its
\* characters at indices 1..5; an id of fewer than 6 characters contributes
\* no warning to the result and causes no error.
C5_CountySubstring ==
    JsonLookupRan =>
        \A i \in 1..Len(all_warnings_raw) :
            LET c == all_warnings_raw[i] IN
            IF Len(c.id) >= 6
            THEN cell_county(c.id) = Chars1To5(c.id)
            ELSE /\ \A j \in 1..Len(warnungen) : warnungen[j].cell # c.id
                 /\ error_warn = NoMsg

\* C5 witness: a lookup over a too short id that lists a warning and a long
\* id whose warning is returned ends without error.
C5_Witness ==
    /\ JsonLookupRan
    /\ error_warn = NoMsg
    /\ \E i, j \in 1..Len(all_warnings_raw) :
         /\ Len(all_warnings_raw[i].id) < 6
         /\ all_warnings_raw[i].warnings # <<>>
         /\ Len(all_warnings_raw[j].id) >= 6
         /\ all_warnings_raw[j].warnings # <<>>
         /\ all_warnings_raw[j].warnings[1] \in Range(warnungen)

\* get_ags_from_coordinates has run on a downloaded catalog
ResolveRan ==
    /\ pc \in {"match", "done"}
    /\ coords # NoCoords
    /\ error_ags # "fetch_error"

QueryPoint == Point(coords[2], coords[1])

\* feature i has a polygon the point lies strictly inside
InsideAt(i) ==
    /\ features[i].hasGeometry
    /\ features[i].geometry.kind = "Polygon"
    /\ StrictlyInside(features[i].geometry, QueryPoint)

\* feature i has a polygon the point lies inside or on the boundary of
CoversAt(i) ==
    /\ features[i].hasGeometry
    /\ features[i].geometry.kind = "Polygon"
    /\ (StrictlyInside(features[i].geometry, QueryPoint)
        \/ OnBoundary(features[i].geometry, QueryPoint))

\* feature i carries a properties object with a region code
HasCodeAt(i) == features[i].hasProperties /\ Truthy(features[i].properties.AGS)

\* feature i is one of the malformed features: geometry key absent, geometry
\* null, properties absent, geometry unparseable
MalformedAt(i) ==
    \/ ~features[i].hasGeometry
    \/ features[i].geometry.kind \in {"null", "invalid"}
    \/ ~features[i].hasProperties

\* resolve returned the code and the name of feature i
ResultIs(i) ==
    /\ location_ags = features[i].properties.AGS
    /\ location_name = (IF features[i].properties.NAME = None
                        THEN <<"Unbekannt">> ELSE features[i].properties.NAME)

\* C6: resolve returns the code and name of the first feature, in catalog
\* order, whose geometry contains the point.
C6_FirstMatchWins ==
    ResolveRan =>
        \A i \in 1..Len(features) :
            (/\ InsideAt(i) /\ HasCodeAt(i)
             /\ \A j \in 1..(i - 1) : ~InsideAt(j))
                => ResultIs(i)

\* C7: for a point outside every polygon resolve returns no code and no
\* name, and the run ends with the "could not be assigned" message without
\* any warning match.
C7_NotFound ==
    (ResolveRan /\ \A i \in 1..Len(features) : ~CoversAt(i)) =>
        /\ location_ags = None /\ location_name = None
        /\ pc = "done"
        /\ Last(out) \in {"not_assigned", "no_region"}
        /\ Range(out) \cap {"region_found", "warnings", "no_warnings", "no_data"} = {}
        /\ reported = <<>> /\ warnungen = <<>> /\ all_warnings_raw = <<>>

\* C7 witness: resolve ran over a catalog with a polygon and the point lies
\* outside of every polygon.
C7_Witness ==
    /\ ResolveRan
    /\ \A i \in 1..Len(features) : ~CoversAt(i)
    /\ \E i \in 1..Len(features) :
         features[i].hasGeometry /\ features[i].geometry.kind = "Polygon" /\ HasCodeAt(i)

\* C8: a point on the boundary of a polygon counts as inside: resolve
\* returns the code of the first feature whose polygon has the point inside
\* or on its boundary.
C8_BoundaryInclusive ==
    ResolveRan =>
        \A i \in 1..Len(features) :
            (/\ CoversAt(i) /\ HasCodeAt(i)
             /\ \A j \in 1..(i - 1) : ~CoversAt(j))
                => ResultIs(i)

\* C9: malformed features are skipped one by one: a well-formed feature that
\* contains the point is returned when every feature before it is malformed
\* or does not contain the point.
C9_MalformedSkipped ==
    ResolveRan =>
        \A i \in 1..Len(features) :
            (/\ InsideAt(i) /\ HasCodeAt(i)
             /\ \A j \in 1..(i - 1) : MalformedAt(j) \/ ~CoversAt(j))
                => ResultIs(i)

\* the warnings of the JSON mapping in ingestion order
RECURSIVE Flatten(_)
Flatten(raw) == IF raw = <<>> THEN <<>> ELSE Head(raw).warnings \o Flatten(Tail(raw))

\* C10: the lookup result is the subsequence of the ingested warnings that
\* match, in ingestion order, nothing omitted, nothing twice.
C10_IngestionOrder ==
    /\ CapMatchRan =>
         LET Matches(rec) == IsPrefix(rec.ags_code, location_ags)
         IN  reported = SelectSeq(all_warnings_data, Matches)
    /\ JsonLookupRan =>
         LET Matches(w) == Len(w.cell) >= 6 /\ First5Equal(location_ags, Chars1To5(w.cell))
         IN  warnungen = SelectSeq(Flatten(all_warnings_raw), Matches)

\* C10 witness: two different records are returned, in the order ingested.
C10_Witness ==
    /\ CapMatchRan \/ JsonLookupRan
    /\ Len(reported) >= 2
    /\ reported[1] # reported[2]

\* no cell of the JSON mapping matches the queried code
NoCellMatches ==
    \A i \in 1..Len(all_warnings_raw) :
        ~(/\ Len(all_warnings_raw[i].id) >= 6
          /\ First5Equal(location_ags, Chars1To5(all_warnings_raw[i].id)))

\* no entry of all_warnings_data matches the queried code
NoEntryMatches ==
    \A i \in 1..Len(all_warnings_data) :
        ~IsPrefix(all_warnings_data[i].ags_code, location_ags)

LookupErrors == {"invalid_code", "fetch_error"}

\* the messages of a CAP run whose warning data could not be obtained
IngestErrors == {"download_failed", "parse_failed"}

RawOrStripped(code, raw) ==
    \/ code = raw
    \/ /\ Len(code) = Len(raw) - 1
       /\ \A k \in 1..Len(code) : code[k] = raw[k + 1]

\* the CAP half of C14: every entry with a non-empty raw id has a non-empty
\* code, which is the raw id or the raw id without its first character
CapCodeAlwaysDerived ==
    script = "CAP" =>
        \A i \in 1..Len(all_warnings_data) :
            LET e == all_warnings_data[i] IN
            e.warncell_id # <<>> =>
                e.ags_code # <<>> /\ RawOrStripped(e.ags_code, e.warncell_id)

\* C14 as claimed: every ingested warning with a non-empty raw cell id gets a
\* non-empty region code, in both scripts.
C14_CodeAlwaysDerived ==
    /\ CapCodeAlwaysDerived
    /\ JsonLookupRan =>
         \A i \in 1..Len(all_warnings_raw) :
            LET id == all_warnings_raw[i].id IN
            id # <<>> => ~cell_skipped(id) /\ cell_county(id) # <<>>

\* C14 as amended: LeadingDigitStrip derives a non-empty code from every
\* non-empty raw id; CountySubstring derives a 5-character code from a raw id
\* of at least 6 characters and none from a shorter one, whose warnings are
\* dropped.
C14_CodeDerivedWhenLongEnough ==
    /\ CapCodeAlwaysDerived
    /\ JsonLookupRan =>
         \A i \in 1..Len(all_warnings_raw) :
            LET id == all_warnings_raw[i].id IN
            IF Len(id) >= 6
            THEN ~cell_skipped(id) /\ Len(cell_county(id)) = 5
            ELSE /\ cell_skipped(id)
                 /\ \A j \in 1..Len(warnungen) : warnungen[j].cell # id

\* C14 witness: the ingested CAP ids "1" and "0…" kept their text as code and
\* an id "1…" lost its first character.
C14_Witness ==
    /\ script = "CAP"
    /\ \E i, j \in 1..Len(all_warnings_data) :
         /\ all_warnings_data[i].warncell_id = <<"1">>
         /\ all_warnings_data[i].ags_code = <<"1">>
         /\ Len(all_warnings_data[j].warncell_id) = 2
         /\ all_warnings_data[j].warncell_id[1] = "1"
         /\ Len(all_warnings_data[j].ags_code) = 1

\* feature i carries a properties object without a region code
CodelessAt(i) == features[i].hasProperties /\ ~Truthy(features[i].properties.AGS)

\* C15: a feature without a region code is never the result of resolve and
\* does not stop the scan: when the features containing the point before
\* feature i are all without a code and feature i contains the point and has
\* a code, resolve returns the code and name of feature i.
C15_CodelessSkipped ==
    ResolveRan =>
        /\ location_name # None => Truthy(location_ags)
        /\ \A i \in 1..Len(features) :
             (/\ InsideAt(i) /\ HasCodeAt(i)
              /\ \E j \in 1..(i - 1) : InsideAt(j)
              /\ \A j \in 1..(i - 1) :
                   features[j].hasGeometry /\ (InsideAt(j) => CodelessAt(j)))
                => ResultIs(i)

\* C16: for a warning code truncated to the 5 characters of the county and
\* a queried code of at least 5 characters, the prefix test of the CAP script
\* and the truncated equality of the JSON script agree.
C16_PoliciesAgree ==
    (JsonLookupRan /\ Len(location_ags) >= 5) =>
        \A i \in 1..Len(all_warnings_raw) :
            LET id == all_warnings_raw[i].id
                w  == cell_county(id)
            IN  (Len(id) >= 6 /\ Len(w) = 5) =>
                    (cap_matches(location_ags, w) <=> json_matches(location_ags, id))

\* C16 witness: a code longer than 5 characters was looked up over one cell
\* of its county and one cell of another county.
C16_Witness ==
    /\ JsonLookupRan /\ Len(location_ags) > 5
    /\ \E i, j \in 1..Len(all_warnings_raw) :
         /\ Len(all_warnings_raw[i].id) >= 6
         /\ Len(all_warnings_raw[j].id) >= 6
         /\ cap_matches(location_ags, cell_county(all_warnings_raw[i].id))
         /\ json_matches(location_ags, all_warnings_raw[i].id)
         /\ ~cap_matches(location_ags, cell_county(all_warnings_raw[j].id))
         /\ ~json_matches(location_ags, all_warnings_raw[j].id)

\* the messages that end a run in the region resolution
ResolveFailures == {"not_assigned", "no_region", "fetch_error", "parse_error"}

\* the messages of the warning match
MatchMessages == {"warnings", "no_warnings", "no_data", "invalid_code"}

\* one step of a run keeps the order geocode, region resolution, warning match
StagesInOrder ==
    /\ pc' = "resolve" => pc = "geocode" /\ coords' # NoCoords
    /\ pc' = "match" =>
         /\ pc = "resolve" /\ coords # NoCoords
         /\ Truthy(location_ags') /\ Truthy(location_name')
         /\ Last(out') = "region_found"
    /\ <<features, location_ags, location_name, error_ags>>' #
         <<features, location_ags, location_name, error_ags>> =>
             pc = "resolve" /\ coords # NoCoords
    /\ <<all_warnings_raw, warnungen, error_warn, reported>>' #
         <<all_warnings_raw, warnungen, error_warn, reported>> =>
             pc = "match" /\ Truthy(location_ags) /\ Truthy(location_name)
    /\ Range(out') \cap MatchMessages # {} =>
         /\ pc = "match" \/ pc = "done"
         /\ {"coords_found", "region_found"} \subseteq Range(out)
    /\ (pc = "geocode" /\ coords' = NoCoords) =>
         pc' = "done" /\ out' = Append(out, "place_not_found")
    /\ (pc = "resolve" /\ ~(Truthy(location_ags') /\ Truthy(location_name'))) =>
         /\ pc' = "done"
         /\ Last(out') \in ResolveFailures
         /\ "region_found" \notin Range(out')
    /\ (pc = "resolve" /\ script = "JSON" /\ error_ags' # NoMsg) =>
         pc' = "done" /\ out' = Append(out, error_ags')
    /\ pc = "match" => pc' = "done" /\ Last(out') \in MatchMessages \cup {"fetch_error"}
    /\ pc # "done"

\* C17: the stages of a run are strictly ordered geocode, region resolution,
\* warning match: resolution is entered only with both coordinates, the
\* warning match and its output only with a non-empty code and name, and a
\* stage that fails ends the run with its message.
C17_StageOrder == [][StagesInOrder]_vars

\* C17 witness: a run went through the three stages and printed warnings.
C17_Witness ==
    /\ pc = "done"
    /\ coords # NoCoords
    /\ Truthy(location_ags) /\ Truthy(location_name)
    /\ \E k \in 1..(Len(out) - 2) :
         out[k] = "coords_found" /\ out[k + 1] = "region_found" /\ out[k + 2] = "warnings"

====
